---------------------------- MODULE Spec2Model ----------------------------
(***************************************************************************)
(* The three scripts of the repository:                                    *)
(*   src/main.py         PDF summarizer                ("root")            *)
(*   src/1_PART/main.py  PDF summarizer, first version ("part1")           *)
(*   src/2_PART/main.py  meeting notes generator       ("part2")           *)
(* A Python str is a sequence of one-character strings; a dict is the      *)
(* sequence of its <<key, value>> items in insertion order.                *)
(***************************************************************************)
EXTENDS Integers, Sequences, FiniteSets, TLC

VARIABLES
    script,           \* which of the three scripts runs
    env,              \* OPENAI_API_KEY in the environment once load_dotenv() ran, or None
    source,           \* what the PDF / the audio holds: the text extraction yields
    oldfile,          \* meeting_notes.txt as a previous run left it
    API_KEY,          \* the value os.getenv returned
    client,           \* the OpenAI client object, or None
    text,             \* pdf_text (root, part1) / transcript (part2)
    calls,            \* every request handed to the remote provider, in order
    notes,            \* summary (root, part1) / notes (part2): the model's reply
    lines,            \* segregate_notes: notes_text.splitlines()
    i,                \* segregate_notes: position of the for loop in lines
    line,             \* segregate_notes: the loop variable, after strip()
    sections,         \* segregate_notes / main: the dict of sections
    current_section,  \* segregate_notes: the cursor
    file,             \* content of meeting_notes.txt
    k,                \* save_notes: position of the for loop in sections.items()
    error,            \* the exception that ended the run, or None
    pc                \* the statement the script is at

vars == <<script, env, source, oldfile, API_KEY, client, text, calls, notes,
          lines, i, line, sections, current_section, file, k, error, pc>>

-----------------------------------------------------------------------------
(* Bounds of the model *)

\* longest reply, in lines, given to segregate_notes
MaxLines == 4
\* longest short document, in characters
MaxShort == 2
\* how far the long documents exceed the truncation limit
MaxOver == 1
\* most body lines of a section given to save_notes
MaxBody == 2

-----------------------------------------------------------------------------
(* Python values *)

None == <<"None">>

NL == "\n"

\* what str.strip() removes
Whitespace == {" ", "\t", "\n", "\r"}

\* bool(x) of a str or None
Truthy(x) == x # None /\ x # <<>>

Min(a, b) == IF a <= b THEN a ELSE b

\* s[:n]
SliceTo(s, n) == SubSeq(s, 1, Min(Len(s), n))

\* s[n:], n counted from 0
SliceFrom(s, n) == SubSeq(s, n + 1, Len(s))

RECURSIVE lstrip(_)
lstrip(s) ==
    IF s # <<>> /\ Head(s) \in Whitespace THEN lstrip(Tail(s)) ELSE s

RECURSIVE rstrip(_)
rstrip(s) ==
    IF s # <<>> /\ s[Len(s)] \in Whitespace
    THEN rstrip(SubSeq(s, 1, Len(s) - 1))
    ELSE s

strip(s) == rstrip(lstrip(s))

\* str.splitlines(): breaks at \n, \r and \r\n; no line for the empty rest
RECURSIVE SplitFrom(_, _, _)
SplitFrom(s, cur, acc) ==
    IF s = <<>>
    THEN IF cur = <<>> THEN acc ELSE Append(acc, cur)
    ELSE IF Head(s) = "\r" /\ Len(s) >= 2 /\ s[2] = "\n"
         THEN SplitFrom(SliceFrom(s, 2), <<>>, Append(acc, cur))
         ELSE IF Head(s) \in {"\n", "\r"}
              THEN SplitFrom(Tail(s), <<>>, Append(acc, cur))
              ELSE SplitFrom(Tail(s), Append(cur, Head(s)), acc)

splitlines(s) == SplitFrom(s, <<>>, <<>>)

\* s[p - 1:].startswith(sub), p counted from 1
OccursAt(s, p, sub) ==
    p + Len(sub) - 1 <= Len(s) /\ SubSeq(s, p, p + Len(sub) - 1) = sub

\* c * n
RECURSIVE Repeat(_, _)
Repeat(c, n) == IF n <= 0 THEN <<>> ELSE <<c>> \o Repeat(c, n - 1)

-----------------------------------------------------------------------------
(* dict *)

DictKeys(d) == [j \in 1..Len(d) |-> d[j][1]]

\* key in d
DictHas(d, key) == \E j \in 1..Len(d) : d[j][1] = key

\* d[key], for a key of d
DictGet(d, key) == d[CHOOSE j \in 1..Len(d) : d[j][1] = key][2]

\* d[key] = value: a key of d keeps its place, a new key goes last
DictSet(d, key, value) ==
    IF DictHas(d, key)
    THEN [j \in 1..Len(d) |-> IF d[j][1] = key THEN <<key, value>> ELSE d[j]]
    ELSE Append(d, <<key, value>>)

-----------------------------------------------------------------------------
(* src/2_PART/main.py: segregate_notes *)

SUMMARY == <<"S", "U", "M", "M", "A", "R", "Y">>
KEY_POINTS == <<"K", "E", "Y", " ", "P", "O", "I", "N", "T", "S">>
DECISIONS == <<"D", "E", "C", "I", "S", "I", "O", "N", "S">>
ACTION_ITEMS == <<"A", "C", "T", "I", "O", "N", " ", "I", "T", "E", "M", "S">>

\* sections = {"SUMMARY": "", "KEY POINTS": "", "DECISIONS": "", "ACTION ITEMS": ""}
NewSections ==
    << <<SUMMARY, <<>>>>, <<KEY_POINTS, <<>>>>,
       <<DECISIONS, <<>>>>, <<ACTION_ITEMS, <<>>>> >>

\* as if the cursor started on the first section
InitialSectionFirst == SUMMARY

\* current_section = None
InitialSection == None

\* as if a key anywhere in the line made it a heading
IsHeadingAnywhere(secs, ln) ==
    \E j \in 1..Len(secs), p \in 1..Len(ln) : OccursAt(ln, p, secs[j][1])

\* if line in sections
IsHeading(secs, ln) == DictHas(secs, ln)

\* elif current_section and line
IsBody(cur, ln) == Truthy(cur) /\ Truthy(ln)

\* as if the key were popped and stored again: it moves to the end
AccumulateReinsert(secs, cur, ln) ==
    DictSet(SelectSeq(secs, LAMBDA item : item[1] # cur), cur,
            DictGet(secs, cur) \o ln \o <<NL>>)

\* as if the line break were left out
AccumulateNoBreak(secs, cur, ln) == DictSet(secs, cur, DictGet(secs, cur) \o ln)

\* sections[current_section] += line + "\n"
Accumulate(secs, cur, ln) == DictSet(secs, cur, DictGet(secs, cur) \o ln \o <<NL>>)

\* "No information detected.\n"
Sentinel ==
    <<"N", "o", " ", "i", "n", "f", "o", "r", "m", "a", "t", "i", "o", "n", " ",
      "d", "e", "t", "e", "c", "t", "e", "d", ".", NL>>

\* as if an empty section were given the fallback text before the return
WithFallback(secs) ==
    [j \in 1..Len(secs) |->
        IF secs[j][2] = <<>> THEN <<secs[j][1], Sentinel>> ELSE secs[j]]

\* return sections
ReturnValue(secs) == secs

\* the call: the body up to the for statement
Segregate ==
    /\ pc = "segregate"
    /\ sections' = NewSections
    /\ current_section' = InitialSection
    /\ lines' = splitlines(notes)
    /\ i' = 1
    /\ pc' = "loop"
    /\ UNCHANGED <<script, env, source, oldfile, API_KEY, client, text, calls,
                   notes, line, file, k, error>>

\* one iteration of the for loop, the if branch
LoopHeading ==
    /\ pc = "loop" /\ i <= Len(lines)
    /\ LET ln == strip(lines[i]) IN
        /\ IsHeading(sections, ln)
        /\ line' = ln
        /\ current_section' = ln
    /\ i' = i + 1
    /\ UNCHANGED <<script, env, source, oldfile, API_KEY, client, text, calls,
                   notes, lines, sections, file, k, error, pc>>

\* one iteration of the for loop, the elif branch; += on a missing key raises
LoopBody ==
    /\ pc = "loop" /\ i <= Len(lines)
    /\ LET ln == strip(lines[i]) IN
        /\ ~IsHeading(sections, ln)
        /\ IsBody(current_section, ln)
        /\ line' = ln
        /\ IF DictHas(sections, current_section)
           THEN /\ sections' = Accumulate(sections, current_section, ln)
                /\ i' = i + 1
                /\ UNCHANGED <<error, pc>>
           ELSE /\ error' = "KeyError"
                /\ pc' = "failed"
                /\ UNCHANGED <<sections, i>>
    /\ UNCHANGED <<script, env, source, oldfile, API_KEY, client, text, calls,
                   notes, lines, current_section, file, k>>

\* one iteration of the for loop, neither branch
LoopSkip ==
    /\ pc = "loop" /\ i <= Len(lines)
    /\ LET ln == strip(lines[i]) IN
        /\ ~IsHeading(sections, ln)
        /\ ~IsBody(current_section, ln)
        /\ line' = ln
    /\ i' = i + 1
    /\ UNCHANGED <<script, env, source, oldfile, API_KEY, client, text, calls,
                   notes, lines, sections, current_section, file, k, error, pc>>

\* the loop is exhausted: return sections, to main's sections
Return ==
    /\ pc = "loop" /\ i > Len(lines)
    /\ sections' = ReturnValue(sections)
    /\ pc' = "print"
    /\ UNCHANGED <<script, env, source, oldfile, API_KEY, client, text, calls,
                   notes, lines, i, line, current_section, file, k, error>>

NextSegregate == Segregate \/ LoopHeading \/ LoopBody \/ LoopSkip \/ Return

-----------------------------------------------------------------------------
(* src/2_PART/main.py: print_meeting_notes, save_notes *)

\* print_meeting_notes: four titles and four sections go to the console,
\* which the model does not keep
print_meeting_notes ==
    /\ pc = "print" /\ script = "part2"
    /\ pc' = "save"
    /\ UNCHANGED <<script, env, source, oldfile, API_KEY, client, text, calls,
                   notes, lines, i, line, sections, current_section, file, k,
                   error>>

\* "-" * 40
RuleWidth == 40

Rule == Repeat("-", RuleWidth)

\* as if the file were opened with mode "a"
OpenAppend(old) == old

\* open("meeting_notes.txt", "w"): the content the file starts with
OpenWrite(old) == <<>>

\* the three writes of one iteration
Stanza(title, content) ==
    title \o <<NL>> \o Rule \o <<NL>> \o content \o <<NL, NL>>

\* with open(...) as file, up to the for statement
SaveOpen ==
    /\ pc = "save"
    /\ file' = OpenWrite(file)
    /\ k' = 1
    /\ pc' = "write"
    /\ UNCHANGED <<script, env, source, oldfile, API_KEY, client, text, calls,
                   notes, lines, i, line, sections, current_section, error>>

\* one iteration of for title, content in sections.items()
SaveWrite ==
    /\ pc = "write" /\ k <= Len(sections)
    /\ file' = file \o Stanza(sections[k][1], sections[k][2])
    /\ k' = k + 1
    /\ UNCHANGED <<script, env, source, oldfile, API_KEY, client, text, calls,
                   notes, lines, i, line, sections, current_section, error, pc>>

\* the loop is exhausted: the file is closed, main prints its last line
SaveClose ==
    /\ pc = "write" /\ k > Len(sections)
    /\ pc' = "done"
    /\ UNCHANGED <<script, env, source, oldfile, API_KEY, client, text, calls,
                   notes, lines, i, line, sections, current_section, file, k,
                   error>>

NextSave == SaveOpen \/ SaveWrite \/ SaveClose

-----------------------------------------------------------------------------
(* The module top level and the main flow of the three scripts *)

\* text[:4000], transcript[:4000]: the same literal in the three scripts
MaxChars == 4000

\* as if a missing variable were read as ""
GetenvDefault(e) == IF e = None THEN <<>> ELSE e

\* os.getenv("OPENAI_API_KEY")
Getenv(e) == e

\* OpenAI(api_key=key): the constructor raises OpenAIError when it is given no
\* key and finds none in the environment, where the key came from
OpenAIRaises(key) == key = None

OpenAI(key) == [api_key |-> key]

\* as if the cut were left out
KeepAll(t) == t

\* src/main.py: text = text[:4000]
RootTruncate(t) == SliceTo(t, MaxChars)

\* src/1_PART/main.py: text = text[:4000]
Part1Truncate(t) == SliceTo(t, MaxChars)

\* src/2_PART/main.py: transcript = transcript[:4000]
Part2Truncate(t) == SliceTo(t, MaxChars)

\* client.responses.create(model="gpt-5-mini", input="Summarize ...\n\n" + text)
SummarizeRequest(t) ==
    [api |-> "responses", model |-> "gpt-5-mini", file |-> "",
     head |-> "Summarize the following text in simple and clear language:\n\n",
     body |-> t, tail |-> ""]

\* client.responses.create(model="gpt-5-mini", input=prompt), prompt the f-string
NotesRequest(t) ==
    [api |-> "responses", model |-> "gpt-5-mini", file |-> "",
     head |-> "\n    You are a professional meeting assistant.\n\n    Convert the following transcript into structured meeting notes\n    using EXACTLY the format below:\n    SUMMARY:\n    - \n    KEY POINTS:\n    - \n    DECISIONS:\n    - \n    ACTION ITEMS:\n    - \n    Transcript:\n    ",
     body |-> t, tail |-> "\n    "]

\* client.audio.transcriptions.create(file=audio_file, model=...)
TranscribeRequest(path) ==
    [api |-> "audio.transcriptions", model |-> "gpt-4o-mini-transcribe",
     file |-> path, head |-> "", body |-> <<>>, tail |-> ""]

\* the replies the remote model gives in the runs of the scripts
Replies ==
    { <<>>,
      <<" ", "b", "\r", "\n">> \o SUMMARY \o <<NL, " ", "b", NL, NL>>
          \o SUMMARY \o <<":", NL, " ">> \o DECISIONS \o <<NL, "b", NL>> }

Raise(e) ==
    /\ error' = e
    /\ pc' = "failed"

\* src/main.py 23-30: load_dotenv(), client = OpenAI(api_key=os.getenv(...))
RootClient ==
    /\ pc = "start" /\ script = "root"
    /\ API_KEY' = Getenv(env)
    /\ IF OpenAIRaises(API_KEY')
       THEN Raise("OpenAIError") /\ UNCHANGED client
       ELSE client' = OpenAI(API_KEY') /\ pc' = "read" /\ UNCHANGED error
    /\ UNCHANGED <<script, env, source, oldfile, text, calls, notes, lines, i,
                   line, sections, current_section, file, k>>

\* src/main.py 111: pdf_text = read_pdf("sample.pdf"), the text of the pages
RootReadPdf ==
    /\ pc = "read" /\ script = "root"
    /\ text' = source
    /\ pc' = "validate"
    /\ UNCHANGED <<script, env, source, oldfile, API_KEY, client, calls, notes,
                   lines, i, line, sections, current_section, file, k, error>>

\* src/main.py 116-117: if not pdf_text.strip(): raise ValueError(...)
RootValidate ==
    /\ pc = "validate" /\ script = "root"
    /\ IF ~Truthy(strip(text))
       THEN Raise("ValueError")
       ELSE pc' = "summarize" /\ UNCHANGED error
    /\ UNCHANGED <<script, env, source, oldfile, API_KEY, client, text, calls,
                   notes, lines, i, line, sections, current_section, file, k>>

\* src/main.py 120: summary = summarize_text(pdf_text); the request is made,
\* and the provider answers or the call raises
RootSummarize ==
    /\ pc = "summarize" /\ script = "root"
    /\ calls' = Append(calls, SummarizeRequest(RootTruncate(text)))
    /\ \E answer \in Replies \cup {None} :
        IF answer = None
        THEN Raise("APIError") /\ UNCHANGED notes
        ELSE notes' = answer /\ pc' = "print" /\ UNCHANGED error
    /\ UNCHANGED <<script, env, source, oldfile, API_KEY, client, text, lines,
                   i, line, sections, current_section, file, k>>

\* src/main.py 123-124: the summary goes to the console
RootPrint ==
    /\ pc = "print" /\ script = "root"
    /\ pc' = "done"
    /\ UNCHANGED <<script, env, source, oldfile, API_KEY, client, text, calls,
                   notes, lines, i, line, sections, current_section, file, k,
                   error>>

\* src/1_PART/main.py 9-11
Part1Client ==
    /\ pc = "start" /\ script = "part1"
    /\ API_KEY' = Getenv(env)
    /\ IF OpenAIRaises(API_KEY')
       THEN Raise("OpenAIError") /\ UNCHANGED client
       ELSE client' = OpenAI(API_KEY') /\ pc' = "read" /\ UNCHANGED error
    /\ UNCHANGED <<script, env, source, oldfile, text, calls, notes, lines, i,
                   line, sections, current_section, file, k>>

\* src/1_PART/main.py 35
Part1ReadPdf ==
    /\ pc = "read" /\ script = "part1"
    /\ text' = source
    /\ pc' = "validate"
    /\ UNCHANGED <<script, env, source, oldfile, API_KEY, client, calls, notes,
                   lines, i, line, sections, current_section, file, k, error>>

\* src/1_PART/main.py 37-38: if not pdf_text.strip(): ValueError(...); the
\* exception is made and dropped, nothing is raised
Part1Validate ==
    /\ pc = "validate" /\ script = "part1"
    /\ pc' = "summarize"
    /\ UNCHANGED <<script, env, source, oldfile, API_KEY, client, text, calls,
                   notes, lines, i, line, sections, current_section, file, k,
                   error>>

\* src/1_PART/main.py 40
Part1Summarize ==
    /\ pc = "summarize" /\ script = "part1"
    /\ calls' = Append(calls, SummarizeRequest(Part1Truncate(text)))
    /\ \E answer \in Replies \cup {None} :
        IF answer = None
        THEN Raise("APIError") /\ UNCHANGED notes
        ELSE notes' = answer /\ pc' = "print" /\ UNCHANGED error
    /\ UNCHANGED <<script, env, source, oldfile, API_KEY, client, text, lines,
                   i, line, sections, current_section, file, k>>

\* src/1_PART/main.py 42-43
Part1Print ==
    /\ pc = "print" /\ script = "part1"
    /\ pc' = "done"
    /\ UNCHANGED <<script, env, source, oldfile, API_KEY, client, text, calls,
                   notes, lines, i, line, sections, current_section, file, k,
                   error>>

\* src/2_PART/main.py 26-33: API_KEY = os.getenv(...); if not API_KEY: raise
Part2LoadKey ==
    /\ pc = "start" /\ script = "part2"
    /\ API_KEY' = Getenv(env)
    /\ IF ~Truthy(API_KEY')
       THEN Raise("ValueError")
       ELSE pc' = "client" /\ UNCHANGED error
    /\ UNCHANGED <<script, env, source, oldfile, client, text, calls, notes,
                   lines, i, line, sections, current_section, file, k>>

\* src/2_PART/main.py 41: client = OpenAI(api_key=API_KEY)
Part2Client ==
    /\ pc = "client" /\ script = "part2"
    /\ IF OpenAIRaises(API_KEY)
       THEN Raise("OpenAIError") /\ UNCHANGED client
       ELSE client' = OpenAI(API_KEY) /\ pc' = "read" /\ UNCHANGED error
    /\ UNCHANGED <<script, env, source, oldfile, API_KEY, text, calls, notes,
                   lines, i, line, sections, current_section, file, k>>

\* src/2_PART/main.py 205: transcript = transcribe_audio(audio_path); the
\* request is made, and the provider answers or the call raises
Part2Transcribe ==
    /\ pc = "read" /\ script = "part2"
    /\ calls' = Append(calls, TranscribeRequest("meeting.mp3"))
    /\ \E answer \in {source, None} :
        IF answer = None
        THEN Raise("APIError") /\ UNCHANGED text
        ELSE text' = answer /\ pc' = "validate" /\ UNCHANGED error
    /\ UNCHANGED <<script, env, source, oldfile, API_KEY, client, notes, lines,
                   i, line, sections, current_section, file, k>>

\* src/2_PART/main.py 207-208: if not transcript.strip(): raise ValueError(...)
Part2Validate ==
    /\ pc = "validate" /\ script = "part2"
    /\ IF ~Truthy(strip(text))
       THEN Raise("ValueError")
       ELSE pc' = "summarize" /\ UNCHANGED error
    /\ UNCHANGED <<script, env, source, oldfile, API_KEY, client, text, calls,
                   notes, lines, i, line, sections, current_section, file, k>>

\* src/2_PART/main.py 213: notes = generate_meeting_notes(transcript)
Part2Generate ==
    /\ pc = "summarize" /\ script = "part2"
    /\ calls' = Append(calls, NotesRequest(Part2Truncate(text)))
    /\ \E answer \in Replies \cup {None} :
        IF answer = None
        THEN Raise("APIError") /\ UNCHANGED notes
        ELSE notes' = answer /\ pc' = "segregate" /\ UNCHANGED error
    /\ UNCHANGED <<script, env, source, oldfile, API_KEY, client, text, lines,
                   i, line, sections, current_section, file, k>>

NextRun ==
    \/ RootClient \/ RootReadPdf \/ RootValidate \/ RootSummarize \/ RootPrint
    \/ Part1Client \/ Part1ReadPdf \/ Part1Validate \/ Part1Summarize
    \/ Part1Print
    \/ Part2LoadKey \/ Part2Client \/ Part2Transcribe \/ Part2Validate
    \/ Part2Generate
    \/ NextSegregate \/ print_meeting_notes \/ NextSave

-----------------------------------------------------------------------------
(* Inputs *)

ValidKey == <<"s", "k">>

\* OPENAI_API_KEY: unset, set to nothing, set to a key
EnvValues == {None, <<>>, ValidKey}

SeqsUpTo(S, n) == UNION { [1..m -> S] : m \in 0..n }

\* a document of n characters
LongText(n) == [p \in 1..n |-> IF p % 2 = 1 THEN "a" ELSE " "]

\* what the PDF or the audio yields: short texts, blank ones among them, and
\* texts as long as the limit of the cut, one shorter and some longer
Sources ==
    SeqsUpTo({"a", " ", NL}, MaxShort)
        \cup { LongText(n) : n \in (MaxChars - 1)..(MaxChars + MaxOver) }

\* meeting_notes.txt before the run: absent or empty, or left by an earlier run
OldFiles == { <<>>, Stanza(SUMMARY, <<"b", NL>>) }

\* the lines a reply given to segregate_notes is made of
ReplyLines ==
    { SUMMARY,
      <<" ">> \o DECISIONS \o <<" ">>,
      SUMMARY \o <<":">>,
      <<"S", "u", "m", "m", "a", "r", "y", " ", "-">>,
      <<" ", "b">>,
      <<" ">>,
      <<"a", " ", "d", "e", "c", "i", "s", "i", "o", "n", "s">> }

\* "\n".join(ls)
RECURSIVE JoinLines(_)
JoinLines(ls) ==
    IF ls = <<>> THEN <<>>
    ELSE IF Len(ls) = 1 THEN ls[1]
         ELSE ls[1] \o <<NL>> \o JoinLines(Tail(ls))

AllNotes == { JoinLines(ls) : ls \in SeqsUpTo(ReplyLines, MaxLines) }

\* a body of n lines
RECURSIVE BodyOf(_)
BodyOf(n) == IF n = 0 THEN <<>> ELSE BodyOf(n - 1) \o <<"b", NL>>

\* the mappings given to save_notes: every section with 0..MaxBody lines
AllSections ==
    { << <<SUMMARY, BodyOf(f[1])>>, <<KEY_POINTS, BodyOf(f[2])>>,
         <<DECISIONS, BodyOf(f[3])>>, <<ACTION_ITEMS, BodyOf(f[4])>> >> :
        f \in [1..4 -> 0..MaxBody] }

\* a reply that segregate_notes turns into the mapping secs: the sections
\* arrive last first, each a heading line and its body
RECURSIVE NotesFor(_)
NotesFor(secs) ==
    IF secs = <<>> THEN <<>>
    ELSE NotesFor(Tail(secs)) \o secs[1][1] \o <<NL>> \o secs[1][2]

-----------------------------------------------------------------------------
(* The specifications *)

\* a script is started
InitRun ==
    /\ script \in {"root", "part1", "part2"}
    /\ env \in EnvValues
    /\ source \in Sources
    /\ oldfile \in OldFiles
    /\ file = oldfile
    /\ API_KEY = None
    /\ client = None
    /\ text = None
    /\ calls = <<>>
    /\ notes = None
    /\ lines = <<>>
    /\ i = 0
    /\ line = None
    /\ sections = <<>>
    /\ current_section = None
    /\ k = 0
    /\ error = None
    /\ pc = "start"

SpecRun == InitRun /\ [][NextRun]_vars

\* part2 with the reply of the model in hand, about to call segregate_notes
Init ==
    /\ script = "part2"
    /\ env = ValidKey
    /\ source = <<"a">>
    /\ oldfile = <<>>
    /\ file = oldfile
    /\ API_KEY = ValidKey
    /\ client = OpenAI(ValidKey)
    /\ text = <<"a">>
    /\ calls = <<TranscribeRequest("meeting.mp3"), NotesRequest(<<"a">>)>>
    /\ notes \in AllNotes
    /\ lines = <<>>
    /\ i = 0
    /\ line = None
    /\ sections = <<>>
    /\ current_section = None
    /\ k = 0
    /\ error = None
    /\ pc = "segregate"

Next == NextSegregate

Spec == Init /\ [][Next]_vars

\* part2 with the mapping segregate_notes returned in hand and the notes
\* printed, about to call save_notes
InitSave ==
    /\ script = "part2"
    /\ env = ValidKey
    /\ source = <<"a">>
    /\ oldfile \in OldFiles
    /\ file = oldfile
    /\ API_KEY = ValidKey
    /\ client = OpenAI(ValidKey)
    /\ text = <<"a">>
    /\ calls = <<TranscribeRequest("meeting.mp3"), NotesRequest(<<"a">>)>>
    /\ sections \in AllSections
    /\ notes = NotesFor(sections)
    /\ lines = splitlines(notes)
    /\ i = Len(lines) + 1
    /\ line = strip(lines[Len(lines)])
    /\ current_section = SUMMARY
    /\ k = 0
    /\ error = None
    /\ pc = "save"

SpecSave == InitSave /\ [][NextSave]_vars

-----------------------------------------------------------------------------
(* What the claims about segregate_notes speak of *)

FixedOrder == <<SUMMARY, KEY_POINTS, DECISIONS, ACTION_ITEMS>>

Labels == {SUMMARY, KEY_POINTS, DECISIONS, ACTION_ITEMS}

LowerLetters ==
    <<"a", "b", "c", "d", "e", "f", "g", "h", "i", "j", "k", "l", "m",
      "n", "o", "p", "q", "r", "s", "t", "u", "v", "w", "x", "y", "z">>

UpperLetters ==
    <<"A", "B", "C", "D", "E", "F", "G", "H", "I", "J", "K", "L", "M",
      "N", "O", "P", "Q", "R", "S", "T", "U", "V", "W", "X", "Y", "Z">>

UpperChar(c) ==
    IF \E j \in 1..26 : LowerLetters[j] = c
    THEN UpperLetters[CHOOSE j \in 1..26 : LowerLetters[j] = c]
    ELSE c

\* s.upper()
Upper(s) == [j \in 1..Len(s) |-> UpperChar(s[j])]

\* s.startswith(p)
StartsWith(s, p) == OccursAt(s, 1, p)

\* the label the trimmed, case-normalised line starts with, or None
PrefixLabel(ln) ==
    IF \E lab \in Labels : StartsWith(Upper(strip(ln)), lab)
    THEN CHOOSE lab \in Labels : StartsWith(Upper(strip(ln)), lab)
    ELSE None

\* a label, in any case, lies in the trimmed line somewhere after its start
MidLineLabel(ln) ==
    LET t == Upper(strip(ln)) IN
    \E lab \in Labels, p \in 2..Len(t) : OccursAt(t, p, lab)

\* the line is a heading the program recognises: trimmed, it is a label
Recognised(ln) == strip(ln) \in Labels

\* the lines the loop has been through
Processed ==
    IF pc = "loop" THEN SubSeq(lines, 1, i - 1)
    ELSE IF pc = "segregate" THEN <<>> ELSE lines

InLoopOrAfter == pc \in {"loop", "print"}

Returned == pc = "print"

\* the section line j of ls lies in: the label of the last heading before it
Owner(ls, j) ==
    IF \E h \in 1..(j - 1) : Recognised(ls[h])
    THEN strip(ls[CHOOSE h \in 1..(j - 1) :
                     /\ Recognised(ls[h])
                     /\ \A g \in (h + 1)..(j - 1) : ~Recognised(ls[g])])
    ELSE None

\* line j of ls is a body line of the section key
IsBodyOf(ls, j, key) ==
    /\ ~Recognised(ls[j])
    /\ strip(ls[j]) # <<>>
    /\ Owner(ls, j) = key

\* trimmed-line + "\n" of every body line of key among the first n lines of ls
RECURSIVE ExpectedText(_, _, _)
ExpectedText(ls, key, n) ==
    IF n = 0 THEN <<>>
    ELSE ExpectedText(ls, key, n - 1)
         \o (IF IsBodyOf(ls, n, key) THEN strip(ls[n]) \o <<NL>> ELSE <<>>)

\* no line of s is empty
NoEmptyLine(s) ==
    /\ s # <<>> => s[1] # NL
    /\ \A j \in 2..Len(s) : s[j] = NL => s[j - 1] # NL

-----------------------------------------------------------------------------
(* Claims about segregate_notes, checked under Spec *)

\* C1: for every input, segregate_notes goes on to its return without
\* raising, and at every step of the line loop and at the return the keys of
\* the mapping are exactly SUMMARY, KEY POINTS, DECISIONS, ACTION ITEMS, in
\* that order.
C1_FixedKeys ==
    /\ error = None /\ pc # "failed"
    /\ pc = "loop" => i <= Len(lines) + 1
    /\ (pc = "loop" /\ i <= Len(lines)) => ENABLED (LoopHeading \/ LoopBody \/ LoopSkip)
    /\ (pc = "loop" /\ i > Len(lines)) => ENABLED Return
    /\ InLoopOrAfter => DictKeys(sections) = FixedOrder

\* C1 witness: the function returned on a non-empty input with no heading at
\* all, and on an input whose body lines were stored.
C1_Witness ==
    /\ Returned
    /\ Len(lines) >= 2
    /\ \A j \in 1..Len(lines) : ~Recognised(lines[j])

\* C4 as claimed: a line whose trimmed, case-normalised text starts with a
\* label sets the current section to that label and is appended to no section.
C4_PrefixHeading ==
    [][(pc = "loop" /\ i <= Len(lines) /\ PrefixLabel(lines[i]) # None)
        => (current_section' = PrefixLabel(lines[i]) /\ sections' = sections)]_vars

\* C5 as claimed: at the return every section that received no body line holds
\* the fallback sentinel, and no section is the empty string.
C5_Sentinel ==
    Returned =>
        \A key \in Labels :
            /\ (\A j \in 1..Len(lines) : ~IsBodyOf(lines, j, key))
                   => DictGet(sections, key) = Sentinel
            /\ DictGet(sections, key) # <<>>

\* C5 amended: at the return every section that received no body line holds
\* the empty string, so segregate_notes("") returns four empty sections; no
\* fallback text is put in.
C5_EmptyStaysEmpty ==
    Returned =>
        /\ \A key \in Labels :
               (\A j \in 1..Len(lines) : ~IsBodyOf(lines, j, key))
                   => DictGet(sections, key) = <<>>
        /\ notes = <<>> => \A key \in Labels : DictGet(sections, key) = <<>>

\* C5 witness: returned with one section filled and another left without a
\* body line.
C5_Witness ==
    /\ Returned
    /\ \E key \in Labels : \E j \in 1..Len(lines) : IsBodyOf(lines, j, key)
    /\ \E key \in Labels : \A j \in 1..Len(lines) : ~IsBodyOf(lines, j, key)

\* C6: at every step of the loop and at the return, the text of each section
\* is the concatenation, in order of appearance, of trimmed-line + "\n" for
\* every non-empty line that is not a heading line and lies after a heading of
\* that section and before the next heading (a heading being a line the
\* program recognises: trimmed, it is a label); the text holds no empty line.
C6_BodyText ==
    InLoopOrAfter =>
        \A key \in Labels :
            /\ DictGet(sections, key) = ExpectedText(Processed, key, Len(Processed))
            /\ NoEmptyLine(DictGet(sections, key))

\* C6 witness: returned with a section of two body lines, where a
\* whitespace-only line lies after the heading of that section.
C6_Witness ==
    /\ Returned
    /\ \E key \in Labels :
        /\ \E a, b \in 1..Len(lines) :
               a < b /\ IsBodyOf(lines, a, key) /\ IsBodyOf(lines, b, key)
        /\ \E j \in 1..Len(lines) : strip(lines[j]) = <<>> /\ Owner(lines, j) = key

\* the number of line breaks in s
RECURSIVE CountBreaks(_)
CountBreaks(s) ==
    IF s = <<>> THEN 0
    ELSE (IF Head(s) = NL THEN 1 ELSE 0) + CountBreaks(Tail(s))

\* the number of lines stored in the sections
StoredLines ==
    CountBreaks(DictGet(sections, SUMMARY)) + CountBreaks(DictGet(sections, KEY_POINTS))
        + CountBreaks(DictGet(sections, DECISIONS))
        + CountBreaks(DictGet(sections, ACTION_ITEMS))

\* C7: as long as no line gone through is a recognised heading, the cursor is
\* unset and every accumulator is still empty; and the sections never hold
\* more lines than were gone through after the first recognised heading, so a
\* line before it is in no section.
C7_BeforeFirstHeading ==
    InLoopOrAfter =>
        /\ (\A j \in 1..Len(Processed) : ~Recognised(Processed[j]))
               => /\ current_section = None
                  /\ \A key \in Labels : DictGet(sections, key) = <<>>
        /\ StoredLines <=
               Cardinality({ j \in 1..Len(Processed) :
                               \E h \in 1..(j - 1) : Recognised(Processed[h]) })

\* C7 witness: the loop went through a non-blank line and no heading yet,
\* and a heading is still to come.
C7_Witness ==
    /\ pc = "loop"
    /\ \E j \in 1..Len(Processed) : strip(Processed[j]) # <<>>
    /\ \A j \in 1..Len(Processed) : ~Recognised(Processed[j])
    /\ i <= Len(lines) /\ Recognised(lines[i])

\* C8: a line with a label somewhere after the start of the trimmed line
\* leaves the cursor as it is, and is appended to the current section if one
\* is set and to none otherwise.
C8_MidLineLabel ==
    [][(pc = "loop" /\ i <= Len(lines) /\ MidLineLabel(lines[i]))
        => /\ current_section' = current_section
           /\ pc' = "loop"
           /\ \A key \in Labels :
                  DictGet(sections', key) =
                      IF key = current_section
                      THEN DictGet(sections, key) \o strip(lines[i]) \o <<NL>>
                      ELSE DictGet(sections, key)]_vars

\* C8 witness: the loop went through a line with a mid-line label while a
\* section was current.
C8_Witness ==
    /\ pc = "loop" /\ i >= 3
    /\ MidLineLabel(lines[i - 1])
    /\ Recognised(lines[i - 2])
    /\ current_section = strip(lines[i - 2])

-----------------------------------------------------------------------------
(* Claim about save_notes, checked under SpecSave *)

\* the stanzas of the first n sections of the fixed order: the name, a rule
\* of 40 dashes, the body text, a line break and an empty line
RECURSIVE ExpectedFile(_, _)
ExpectedFile(secs, n) ==
    IF n = 0 THEN <<>>
    ELSE ExpectedFile(secs, n - 1)
         \o FixedOrder[n] \o <<NL>>
         \o [p \in 1..40 |-> "-"] \o <<NL>>
         \o DictGet(secs, FixedOrder[n]) \o <<NL>> \o <<NL>>

-----------------------------------------------------------------------------
(* Claims about the runs of the scripts, checked under SpecRun *)

\* the requests made to the language model
ModelCalls == { j \in 1..Len(calls) : calls[j].api = "responses" }

\* C2 as claimed: no run makes the summarizing or structuring request with a
\* text that is empty or whitespace-only.
C2_EmptyNeverForwarded ==
    ModelCalls # {} => strip(text) # <<>>

C9_Truncated ==
    \A j \in ModelCalls :
        LET body == calls[j].body IN
        /\ Len(body) = (IF Len(text) <= 4000 THEN Len(text) ELSE 4000)
        /\ \A p \in 1..Len(body) : body[p] = text[p]

\* C9 witness: the notes request of a transcript longer than 4000 characters
\* was made, with 4000 of them.
C9_Witness ==
    /\ script = "part2"
    /\ Len(text) > 4000
    /\ \E j \in ModelCalls : Len(calls[j].body) = 4000

=============================================================================
